---------------------------- MODULE Spec2Model ----------------------------
(***************************************************************************)
(* State-machine model of the bookworm-frontend cart, checkout and Bakong  *)
(* payment-polling code (src/src/pages/Cart.tsx, src/src/pages/Checkout.tsx*)
(* and the API bindings of src/unnamed/part_000).                          *)
(*                                                                         *)
(* React is modelled as it executes: component state is a set of           *)
(* variables, every event handler is an action, and an async handler is    *)
(* split at each await into the step that issues the request and the step  *)
(* that runs when the reply arrives.  A handler closes over the state of   *)
(* the render that created it, so the values it reads after an await are   *)
(* the captured ones; they are stored with the handler instance.  The      *)
(* polling useEffect runs, as in React, after every state change that      *)
(* changes one of its dependencies: first the cleanup of the previous run, *)
(* then the new body.                                                      *)
(***************************************************************************)
EXTENDS Integers, FiniteSets, Sequences, Bags, TLC

(***************************************************************************)
(* Bounds of the model.                                                    *)
(***************************************************************************)
MaxOrders == 2      \* order-creation requests issued in one behaviour
MaxItems == 2       \* distinct cart item ids
MaxQty == 3         \* largest quantity the server reports for a cart item
MaxInFlight == 2    \* verify-payment requests of one session awaiting a reply
MaxCheckouts == 2   \* processCheckout instances alive at the same time
MaxOps == 1         \* cart handler calls in flight when they are of mixed kinds
MaxSubmits == 1     \* submissions of the payment modal in SpecFlow, SpecPollFair
MaxRemovals == 2    \* removeItem calls in flight when only removals are
MaxTabs == 2        \* browser tabs of the application
MaxCarriedOut == 0  \* deletes carried out when the deletes of a checkout fail
MaxCountReqs == 2   \* updateCartCount requests of the effect in flight
Slack == 1          \* how far the attempt counter is followed past maxAttempts
BookStock == 1      \* stock of every book whose details could be loaded

(***************************************************************************)
(* Program constants.                                                      *)
(***************************************************************************)
maxAttempts == 60

Null == 0
Orders == 1 .. MaxOrders
Calls == 1 .. MaxOrders
Items == 1 .. MaxItems
AttemptCap == maxAttempts + Slack

PaymentMethods == {"BAKONG", "STRIPE"}
PaymentStatuses == {"PENDING", "COMPLETED", "FAILED"}
OrderStatuses == {"PENDING", "PAID"}

\* The replies a verify-payment request can get: a non-OK HTTP status, a
\* rejected fetch / unparsable body, or an OK reply with a status object.
VerifyReplies ==
  {[kind |-> "nonOK", paymentStatus |-> "PENDING", orderStatus |-> "PENDING"],
   [kind |-> "error", paymentStatus |-> "PENDING", orderStatus |-> "PENDING"]}
  \cup [kind : {"ok"}, paymentStatus : PaymentStatuses, orderStatus : OrderStatuses]

\* Book details of a cart item: booksAPI.getById fails for even item ids, so
\* those items carry no book (item.book is undefined).
HasBook(i) == i % 2 = 1
Stock(i) == BookStock
Price(i) == i + 1

Min(a, b) == IF a < b THEN a ELSE b

\* A polling session is one run of the effect body: one currentOrderId
\* together with one bakongQR.
SessionIds == Orders \X Orders
NoSession == <<Null, Null>>

\* The browser tabs that share localStorage; CartProvider and the pages are
\* those of ThisTab.
Tabs == 1 .. MaxTabs
ThisTab == 1

\* The id of the one user account.
UserId == 1

VARIABLES
  page,            \* the page shown first: "cart", "checkout", "book", "auth"
  mounted,         \* FALSE once the page component is unmounted
  cart,            \* the useState cells of the Cart component (Cart.tsx 46-59)
  sess,            \* closures of the polling effect runs (Cart.tsx 83-186)
  pollSession,     \* the session the latest effect run started, or NoSession
  loadCartPc,      \* loadCart of the mounted page: "idle" | "fetch" | "done"
  hpms,            \* Calls -> handlePaymentMethodSubmit instance
  nextCall,        \* number of handlePaymentMethodSubmit/handleCheckout calls
  checkouts,       \* bag of processCheckout instances
  navTimers,       \* pending setTimeout(() => navigate("/orders"), 1500)
  stripeForm,      \* StripePaymentForm.handleSubmit instance
  cartOps,         \* updateQuantity / removeItem / clearCart instances
  co,              \* the Checkout component and its handleCheckout instance
  ordersCreated,   \* ids of the orders the server has created
  confirmed,       \* orders whose payment confirmation reached the client
  stockRejects,    \* TRUE once updateQuantity refused a quantity on stock
  cancelled,       \* orders whose Bakong payment the user cancelled
  cartCount,       \* the cartCount cell of CartProvider (CartContext.tsx 15)
  server,          \* the cart the server holds for the user: item -> quantity
  auth,            \* tab -> the cells of its AuthProvider and of its login call
  storage,         \* the 'token' and 'user' entries of localStorage
  countReqs,       \* requests of updateCartCount calls made by the effect
  adding           \* the item BookDetail.handleAddToCart is creating, or Null

\* The state of the context providers apart from cartCount.
ctx == <<auth, storage, countReqs, adding>>

vars == <<page, mounted, cart, sess, pollSession, loadCartPc, hpms, nextCall, checkouts,
          navTimers, stripeForm, cartOps, co, ordersCreated, confirmed,
          stockRejects, cancelled, cartCount, server, ctx>>

EmptyCart == [i \in Items |-> 0]
ItemIds(c) == {i \in Items : c[i] > 0}

\* Cart.tsx 46-59: the initial values of the useState cells.  shippingAddress
\* is kept as "is not blank", bakongQR and stripeClientSecret as the order the
\* QR / payment intent was made for, paymentStatusMessage as its kind.
CartInit ==
  [cartItems |-> EmptyCart, isLoading |-> TRUE, showPaymentModal |-> FALSE,
   showClearCartDialog |-> FALSE, isProcessing |-> FALSE,
   shippingAddress |-> FALSE, bakongQR |-> Null, isGeneratingQR |-> FALSE,
   currentOrderId |-> Null, paymentMethod |-> "STRIPE", stripePromise |-> FALSE,
   stripeClientSecret |-> Null, isPollingPayment |-> FALSE,
   paymentStatusMessage |-> ""]

\* Cart.tsx 91: a closure whose effect body has not run, or that nothing
\* references any more (no timer, no pending reply).
FreshSession == [attempts |-> 0, timer |-> FALSE, inflight |-> 0, items |-> {}]

IdleSubmit == [pc |-> "idle", method |-> "STRIPE", order |-> Null,
               reqOrder |-> Null, total |-> 0]
DoneSubmit == [IdleSubmit EXCEPT !.pc = "done"]

IdleForm == [pc |-> "idle", order |-> Null, items |-> {}]

\* Checkout.tsx 24-28 and the position of handleCheckout.
CheckoutInit ==
  [cartItems |-> EmptyCart, isLoading |-> TRUE, isProcessing |-> FALSE,
   shippingAddress |-> FALSE, paymentMethod |-> "CREDIT_CARD", pc |-> "idle",
   order |-> Null, reqOrder |-> Null, total |-> 0, items |-> {},
   paymentCreated |-> FALSE, deleted |-> FALSE, navigated |-> FALSE]

\* CartContext.tsx 174-176: the cells of AuthProvider, with the position of
\* the login call of the tab (Home.tsx 104, 200 allows one at a time).
LoggedOut == [user |-> Null, token |-> Null, pc |-> "idle"]

NoEntries == [token |-> Null, user |-> Null]
LoggedInEntries == [token |-> UserId, user |-> UserId]

\* CartContext.tsx 178-188: the effect AuthProvider runs when it mounts.
AuthMounted(st) ==
  IF st.token # Null /\ st.user # Null
    THEN [user |-> st.user, token |-> st.token, pc |-> "idle"]
    ELSE LoggedOut

\* CartContext.tsx 27: the reduce over the quantities of the items.
RECURSIVE SumQuantity(_, _)
SumQuantity(items, n) ==
  IF n = 0 THEN 0 ELSE SumQuantity(items, n - 1) + items[n]

totalCount(items) == SumQuantity(items, MaxItems)

\* The server's cart after cartAPI.delete succeeded for the items of D.
Deleted(sv, D) == [i \in Items |-> IF i \in D THEN 0 ELSE sv[i]]

\* Promise.all over the deletes of the items of S rejected: at least one
\* delete failed, any of the others may have been carried out.
PartlyDeleted(sv, S) == {Deleted(sv, D) : D \in (SUBSET S) \ {S}}

\* The same for the deletes of a checkout, of which at most MaxCarriedOut
\* are followed as carried out.
CheckoutPartlyDeleted(sv, S) ==
  {Deleted(sv, D) : D \in {E \in (SUBSET S) \ {S} :
                             Cardinality(E) <= MaxCarriedOut}}

\* The carts cartAPI.getByUserId can return.
ServerCarts == [Items -> {0, 1, MaxQty}]
FullCart == [i \in Items |-> 1]

\* The user is logged in unless the behaviour starts on the login page, and
\* the effect of CartProvider (CartContext.tsx 41-43) has then made its
\* first request.
Init ==
  /\ page \in {"cart", "checkout", "book", "auth"}
  /\ mounted = TRUE
  /\ cart = CartInit
  /\ sess = [s \in SessionIds |-> FreshSession]
  /\ pollSession = NoSession
  /\ loadCartPc = "fetch"
  /\ hpms = [c \in Calls |-> IdleSubmit]
  /\ nextCall = 1
  /\ checkouts = EmptyBag
  /\ navTimers = 0
  /\ stripeForm = IdleForm
  /\ cartOps = {}
  /\ co = CheckoutInit
  /\ ordersCreated = {}
  /\ confirmed = {}
  /\ stockRejects = FALSE
  /\ cancelled = {}
  /\ cartCount = 0
  /\ server \in ServerCarts
  /\ storage = (IF page = "auth" THEN NoEntries ELSE LoggedInEntries)
  /\ auth = [t \in Tabs |-> AuthMounted(storage)]
  /\ countReqs = (IF page = "auth" THEN 0 ELSE 1)
  /\ adding = Null

(***************************************************************************)
(* Pure functions.                                                         *)
(***************************************************************************)
RECURSIVE SumTotal(_, _)
SumTotal(items, n) ==
  IF n = 0 THEN 0
  ELSE SumTotal(items, n - 1) + (IF HasBook(n) THEN Price(n) ELSE 0) * items[n]

\* Cart.tsx 466-470 (Checkout.tsx 60-61): reduce over the items of
\* (item.book?.price || 0) * item.quantity.
calculateTotal(items) == SumTotal(items, MaxItems)


(***************************************************************************)
(* The polling effect (Cart.tsx 83-186).                                   *)
(***************************************************************************)
Deps(c) == <<c.currentOrderId, c.paymentMethod, c.bakongQR>>

\* Fault injection: a cleanup that forgets clearInterval.
EffectCleanupNoClear(f, s) == f

\* Cart.tsx 180-185: the cleanup clears the interval of the run it belongs to.
EffectCleanup(f, s) ==
  IF s = NoSession THEN f ELSE [f EXCEPT ![s].timer = FALSE]

\* Cart.tsx 95-105: one invocation of checkPaymentStatus up to its await:
\* attempts++ and one verify-payment request.  The counter is followed up to
\* AttemptCap; every comparison the code makes is with maxAttempts < AttemptCap.
checkPaymentStatus(c) ==
  [c EXCEPT !.attempts = Min(@ + 1, AttemptCap), !.inflight = @ + 1]

\* State-space reduction, exact for the code: a closure with no timer and no
\* pending reply is unreachable and is forgotten; the attempts of a closure
\* whose timer is cleared never change again and are only compared with
\* maxAttempts, so below the ceiling they are kept as 1.
Collect(f) ==
  [s \in SessionIds |->
     IF f[s].timer THEN f[s]
     ELSE IF f[s].inflight = 0 THEN FreshSession
     ELSE [f[s] EXCEPT !.attempts = IF @ < maxAttempts THEN 1 ELSE @]]

\* Cart.tsx 86: the condition under which the effect body starts polling.
StartsPolling(c) ==
  c.currentOrderId # Null /\ c.paymentMethod = "BAKONG" /\ c.bakongQR # Null

\* The state change of one handler step: `new` is the component state the
\* step's setState calls produce, `ns` the effect closures after it.  On an
\* unmounted component setState does nothing and no effect runs.  Otherwise
\* the component re-renders, and when a dependency changed the effect's
\* cleanup runs, then its body: Cart.tsx 88-91, the immediate call of line
\* 174 and the setInterval of line 177.
Commit(new, ns) ==
  IF ~mounted
    THEN cart' = cart /\ sess' = Collect(ns) /\ pollSession' = pollSession
  ELSE IF Deps(new) = Deps(cart)
    THEN cart' = new /\ sess' = Collect(ns) /\ pollSession' = pollSession
  ELSE LET cleaned == EffectCleanup(ns, pollSession)
           s == <<new.currentOrderId, new.bakongQR>>
       IN IF StartsPolling(new)
            THEN /\ cart' = [new EXCEPT !.isPollingPayment = TRUE,
                                        !.paymentStatusMessage = "waiting"]
                 /\ sess' = Collect([cleaned EXCEPT ![s] =
                      checkPaymentStatus([attempts |-> 0, timer |-> TRUE,
                         inflight |-> 0, items |-> ItemIds(new.cartItems)])])
                 /\ pollSession' = s
            ELSE /\ cart' = new
                 /\ sess' = Collect(cleaned)
                 /\ pollSession' = NoSession

\* Fault injection: an effect that returns no cleanup, so that unmounting
\* leaves the interval running.
UnmountNoCleanup ==
  /\ mounted' = FALSE
  /\ sess' = sess
  /\ pollSession' = NoSession
  /\ cart' = CartInit

\* Unmounting runs the cleanup and discards the component state.
Unmount ==
  /\ mounted' = FALSE
  /\ sess' = Collect(EffectCleanup(sess, pollSession))
  /\ pollSession' = NoSession
  /\ cart' = CartInit

(***************************************************************************)
(* What the user can reach.  The payment modal and the clear-cart dialog   *)
(* are modal: while one is open the page behind it takes no clicks.        *)
(***************************************************************************)
Interactive == page = "cart" /\ mounted /\ ~cart.isLoading
PageLevel == Interactive /\ ~cart.showPaymentModal /\ ~cart.showClearCartDialog
InModal == Interactive /\ cart.showPaymentModal
HasItems == ItemIds(cart.cartItems) # {}

others == <<page, loadCartPc, hpms, nextCall, checkouts, navTimers, stripeForm,
            cartOps, co, ordersCreated, confirmed, stockRejects, cancelled, cartCount, server, ctx>>

(***************************************************************************)
(* loadCart (Cart.tsx 188-231) and initStripe (Cart.tsx 68-80).            *)
(***************************************************************************)
LoadCartOk(c) ==
  /\ page = "cart" /\ loadCartPc = "fetch"
  /\ c = server
  /\ loadCartPc' = "done"
  /\ Commit([cart EXCEPT !.cartItems = c, !.isLoading = FALSE], sess)
  /\ UNCHANGED <<page, mounted, hpms, nextCall, checkouts, navTimers,
                 stripeForm, cartOps, co, ordersCreated, confirmed,
                 stockRejects, cancelled, cartCount, server, ctx>>

LoadCartFail ==
  /\ page = "cart" /\ loadCartPc = "fetch"
  /\ loadCartPc' = "done"
  /\ Commit([cart EXCEPT !.isLoading = FALSE], sess)
  /\ UNCHANGED <<page, mounted, hpms, nextCall, checkouts, navTimers,
                 stripeForm, cartOps, co, ordersCreated, confirmed,
                 stockRejects, cancelled, cartCount, server, ctx>>

InitStripeOk ==
  /\ page = "cart" /\ mounted /\ ~cart.stripePromise
  /\ Commit([cart EXCEPT !.stripePromise = TRUE], sess)
  /\ UNCHANGED <<mounted, others>>

(***************************************************************************)
(* Opening the payment modal (Cart.tsx 332-342, 605-622, 631, 661).        *)
(***************************************************************************)
SetShippingAddress(b) ==
  /\ PageLevel /\ HasItems /\ b # cart.shippingAddress
  /\ Commit([cart EXCEPT !.shippingAddress = b], sess)
  /\ UNCHANGED <<mounted, others>>

HandleCheckout ==
  /\ PageLevel /\ HasItems
  /\ cart.shippingAddress            \* the button is disabled otherwise
  /\ Commit([cart EXCEPT !.showPaymentModal = TRUE], sess)
  /\ UNCHANGED <<mounted, others>>

CloseModal ==
  /\ InModal
  /\ Commit([cart EXCEPT !.showPaymentModal = FALSE], sess)
  /\ UNCHANGED <<mounted, others>>

SetPaymentMethod(m) ==
  /\ InModal /\ cart.currentOrderId = Null /\ m # cart.paymentMethod
  /\ Commit([cart EXCEPT !.paymentMethod = m], sess)
  /\ UNCHANGED <<mounted, others>>

(***************************************************************************)
(* handlePaymentMethodSubmit (Cart.tsx 344-421).  The instance keeps what  *)
(* its closure captured at the click, paymentMethod, and the totalAmount   *)
(* of the creation request while that request is in flight.               *)
(***************************************************************************)
\* Fault injection: the payment step reads the currentOrderId its closure
\* captured instead of order.id.
PaymentRequestCapturedId(returned, captured) == captured

\* Cart.tsx 366, 389: the order id the payment step is requested for is the
\* id of the order object the creation request returned (order.id), not the
\* currentOrderId the closure captured.
PaymentRequestOrderId(returned, captured) == returned

\* Fault injection: a catch that forgets setCurrentOrderId(null).
PaymentStepFailedKeepsOrder(c) == [c EXCEPT !.showPaymentModal = FALSE]

\* Cart.tsx 372-380, 398-406: what the catch of the payment step does to the
\* component state; the finally blocks follow.
PaymentStepFailed(c) ==
  [c EXCEPT !.showPaymentModal = FALSE, !.currentOrderId = Null]

HandlePaymentMethodSubmit ==
  /\ InModal /\ cart.currentOrderId = Null /\ ~cart.isProcessing
  /\ nextCall <= MaxOrders
  /\ hpms' = [hpms EXCEPT ![nextCall] =
       [pc |-> "create", method |-> cart.paymentMethod, order |-> Null,
        reqOrder |-> Null, total |-> calculateTotal(cart.cartItems)]]
  /\ nextCall' = nextCall + 1
  /\ Commit([cart EXCEPT !.isProcessing = TRUE], sess)
  /\ UNCHANGED <<page, mounted, loadCartPc, checkouts, navTimers, stripeForm,
                 cartOps, co, ordersCreated, confirmed, stockRejects, cancelled, cartCount, server, ctx>>

OrderCreateOk(c) ==
  /\ page = "cart" /\ hpms[c].pc = "create"
  /\ LET o == Cardinality(ordersCreated) + 1
         h == hpms[c]
     IN /\ ordersCreated' = ordersCreated \cup {o}
        /\ hpms' = [hpms EXCEPT ![c] =
             [h EXCEPT !.pc = IF h.method = "BAKONG" THEN "qr" ELSE "intent",
                       !.order = o, !.total = 0,
                       !.reqOrder = PaymentRequestOrderId(o, Null)]]
        /\ Commit([cart EXCEPT !.currentOrderId = o, !.isGeneratingQR = TRUE],
                  sess)
  /\ UNCHANGED <<page, mounted, loadCartPc, nextCall, checkouts, navTimers,
                 stripeForm, cartOps, co, confirmed, stockRejects, cancelled, cartCount, server, ctx>>

\* Fault injection: setIsProcessing(false) at the end of the try block
\* instead of in a finally.
OrderCreateFailedNoFinally(c) == [c EXCEPT !.showPaymentModal = FALSE]

\* Cart.tsx 411-420: the outer catch and finally.
OrderCreateFailed(c) ==
  [c EXCEPT !.showPaymentModal = FALSE, !.isProcessing = FALSE]

OrderCreateFail(c) ==
  /\ page = "cart" /\ hpms[c].pc = "create"
  /\ hpms' = [hpms EXCEPT ![c] = DoneSubmit]
  /\ Commit(OrderCreateFailed(cart), sess)
  /\ UNCHANGED <<page, mounted, loadCartPc, nextCall, checkouts, navTimers,
                 stripeForm, cartOps, co, ordersCreated, confirmed,
                 stockRejects, cancelled, cartCount, server, ctx>>

GenerateQROk(c) ==
  /\ hpms[c].pc = "qr"
  /\ hpms' = [hpms EXCEPT ![c] = DoneSubmit]
  /\ Commit([cart EXCEPT !.bakongQR = hpms[c].reqOrder,
                         !.isGeneratingQR = FALSE, !.isProcessing = FALSE],
            sess)
  /\ UNCHANGED <<page, mounted, loadCartPc, nextCall, checkouts, navTimers,
                 stripeForm, cartOps, co, ordersCreated, confirmed,
                 stockRejects, cancelled, cartCount, server, ctx>>

GenerateQRFail(c) ==
  /\ hpms[c].pc = "qr"
  /\ hpms' = [hpms EXCEPT ![c] = DoneSubmit]
  /\ Commit([PaymentStepFailed(cart) EXCEPT !.isGeneratingQR = FALSE,
                                            !.isProcessing = FALSE], sess)
  /\ UNCHANGED <<page, mounted, loadCartPc, nextCall, checkouts, navTimers,
                 stripeForm, cartOps, co, ordersCreated, confirmed,
                 stockRejects, cancelled, cartCount, server, ctx>>

CreatePaymentIntentOk(c) ==
  /\ hpms[c].pc = "intent"
  /\ hpms' = [hpms EXCEPT ![c] = DoneSubmit]
  /\ Commit([cart EXCEPT !.stripeClientSecret = hpms[c].reqOrder,
                         !.isGeneratingQR = FALSE, !.isProcessing = FALSE],
            sess)
  /\ UNCHANGED <<page, mounted, loadCartPc, nextCall, checkouts, navTimers,
                 stripeForm, cartOps, co, ordersCreated, confirmed,
                 stockRejects, cancelled, cartCount, server, ctx>>

CreatePaymentIntentFail(c) ==
  /\ hpms[c].pc = "intent"
  /\ hpms' = [hpms EXCEPT ![c] = DoneSubmit]
  /\ Commit([PaymentStepFailed(cart) EXCEPT !.isGeneratingQR = FALSE,
                                            !.isProcessing = FALSE], sess)
  /\ UNCHANGED <<page, mounted, loadCartPc, nextCall, checkouts, navTimers,
                 stripeForm, cartOps, co, ordersCreated, confirmed,
                 stockRejects, cancelled, cartCount, server, ctx>>

(***************************************************************************)
(* The poller: the interval timer and checkPaymentStatus after its await   *)
(* (Cart.tsx 94-177).                                                      *)
(* The "Mark Payment as Complete" button of the QR panel (Cart.tsx        *)
(* 727-769) posts to the backend and changes no state of the component;    *)
(* what it does to the payment shows in the replies the poller gets.       *)
(***************************************************************************)
Tick(s) ==
  /\ sess[s].timer
  /\ sess[s].inflight < MaxInFlight
  /\ sess' = [sess EXCEPT ![s] = checkPaymentStatus(@)]
  /\ UNCHANGED <<cart, pollSession, mounted, others>>

\* Cart.tsx 116: the reply that counts as a payment confirmation.
IsConfirmation(r) ==
  r.kind = "ok" /\ r.paymentStatus = "COMPLETED" /\ r.orderStatus = "PAID"

\* Fault injection: the confirmation test looks at paymentStatus alone.
ReplyBranchAnyCompleted(r, attempts) ==
  IF r.kind = "nonOK" THEN "return"
  ELSE IF r.kind = "error"
    THEN IF attempts >= maxAttempts THEN "unable" ELSE "swallowed"
  ELSE IF r.paymentStatus = "COMPLETED" THEN "confirmed"
  ELSE IF r.paymentStatus = "FAILED" THEN "failed"
  ELSE IF attempts >= maxAttempts THEN "timeout"
  ELSE "pending"

\* Cart.tsx 107-170: which branch a reply takes, given the closure's attempts.
ReplyBranch(r, attempts) ==
  IF r.kind = "nonOK" THEN "return"
  ELSE IF r.kind = "error"
    THEN IF attempts >= maxAttempts THEN "unable" ELSE "swallowed"
  ELSE IF IsConfirmation(r) THEN "confirmed"
  ELSE IF r.paymentStatus = "FAILED" THEN "failed"
  ELSE IF attempts >= maxAttempts THEN "timeout"
  ELSE "pending"

StopsPolling(b) == b \in {"confirmed", "failed", "timeout", "unable"}

\* The timer after a reply took branch b: the stopping branches call
\* clearInterval(pollInterval) on the closure's own interval.
TimerAfter(b, timer) == IF StopsPolling(b) THEN FALSE ELSE timer

\* Cart.tsx 128-130: only the confirmation branch schedules processCheckout.
SchedulesCheckout(b) == b = "confirmed"

VerifyReply(s, r) ==
  /\ sess[s].inflight > 0
  /\ LET b == ReplyBranch(r, sess[s].attempts)
         ns == [sess EXCEPT ![s].inflight = @ - 1,
                            ![s].timer = TimerAfter(b, @)]
         msg == CASE b = "confirmed" -> "confirmed"
                  [] b = "failed" -> "failed"
                  [] b = "timeout" -> "timeout"
                  [] b = "unable" -> "unable"
                  [] b = "pending" -> "waiting"
                  [] OTHER -> cart.paymentStatusMessage
         new == [cart EXCEPT
                   !.isPollingPayment = IF StopsPolling(b) THEN FALSE ELSE @,
                   !.paymentStatusMessage = msg]
     IN /\ Commit(new, ns)
        /\ IF SchedulesCheckout(b)
             THEN /\ BagCardinality(checkouts) < MaxCheckouts
                  /\ checkouts' = checkouts (+) SetToBag({
                       [order |-> s[1], items |-> sess[s].items,
                        stage |-> "timer", src |-> "poll"]})
             ELSE checkouts' = checkouts
        /\ confirmed' = IF IsConfirmation(r) THEN confirmed \cup {s[1]}
                        ELSE confirmed
  /\ UNCHANGED <<page, mounted, loadCartPc, hpms, nextCall, navTimers,
                 stripeForm, cartOps, co, ordersCreated, stockRejects, cancelled, cartCount, server, ctx>>

(***************************************************************************)
(* processCheckout (Cart.tsx 423-464).  An instance keeps the currentOrderId*)
(* and the cartItems its closure captured, and who called it.              *)
(***************************************************************************)
\* Cart.tsx 433-454: the state after all deletes succeeded, finally included.
CheckoutSucceeded(c) ==
  [c EXCEPT !.cartItems = EmptyCart, !.showPaymentModal = FALSE,
            !.bakongQR = Null, !.currentOrderId = Null,
            !.shippingAddress = FALSE, !.isPollingPayment = FALSE,
            !.paymentStatusMessage = "", !.isProcessing = FALSE]

\* Cart.tsx 424-431: the call up to its await, made with the captured order
\* and items; `rest` is the bag of the other instances.  With no item to
\* delete Promise.all([]) resolves at once and the call runs to its end.
ProcessCheckoutCall(order, items, src, rest) ==
  IF order = Null
    THEN /\ checkouts' = rest
         /\ UNCHANGED <<cart, sess, pollSession, navTimers, cartCount>>
  ELSE IF items = {}
    THEN /\ checkouts' = rest
         /\ Commit(CheckoutSucceeded(cart), sess)
         /\ cartCount' = 0
         /\ navTimers' = Min(navTimers + 1, MaxCheckouts)
  ELSE /\ checkouts' = rest (+) SetToBag({
            [order |-> order, items |-> items, stage |-> "deleting",
             src |-> src]})
       /\ Commit([cart EXCEPT !.isProcessing = TRUE], sess)
       /\ UNCHANGED <<navTimers, cartCount>>

\* Cart.tsx 128-130: the 1.5 s timer set by the poller fires.
CheckoutTimerFires(k) ==
  /\ BagIn(k, checkouts) /\ k.stage = "timer"
  /\ ProcessCheckoutCall(k.order, k.items, k.src, checkouts (-) SetToBag({k}))
  /\ UNCHANGED <<page, mounted, loadCartPc, hpms, nextCall, stripeForm,
                 cartOps, co, ordersCreated, confirmed, stockRejects, cancelled, server, ctx>>

\* Cart.tsx 813-821: the footer button of the Bakong branch calls
\* processCheckout directly.
BakongFooter ==
  /\ InModal /\ cart.currentOrderId # Null
  /\ cart.paymentMethod = "BAKONG" /\ cart.bakongQR # Null

CompletePaymentClick ==
  /\ BakongFooter /\ ~cart.isProcessing /\ ~cart.isGeneratingQR
  /\ BagCardinality(checkouts) < MaxCheckouts
  /\ ProcessCheckoutCall(cart.currentOrderId, ItemIds(cart.cartItems),
                         "button", checkouts)
  /\ UNCHANGED <<page, mounted, loadCartPc, hpms, nextCall, stripeForm,
                 cartOps, co, ordersCreated, confirmed, stockRejects, cancelled, server, ctx>>

\* Cart.tsx 822-833.
CancelBakong ==
  /\ BakongFooter /\ ~cart.isProcessing
  /\ Commit([cart EXCEPT !.showPaymentModal = FALSE, !.bakongQR = Null,
                         !.currentOrderId = Null], sess)
  /\ cancelled' = cancelled \cup {cart.currentOrderId}
  /\ UNCHANGED <<page, mounted, loadCartPc, hpms, nextCall, checkouts,
                 navTimers, stripeForm, cartOps, co, ordersCreated, confirmed,
                 stockRejects, cartCount, server, ctx>>

CheckoutDeletesOk(k) ==
  /\ BagIn(k, checkouts) /\ k.stage = "deleting"
  /\ checkouts' = checkouts (-) SetToBag({k})
  /\ Commit(CheckoutSucceeded(cart), sess)
  /\ server' = Deleted(server, k.items)
  /\ cartCount' = 0
  /\ navTimers' = Min(navTimers + 1, MaxCheckouts)
  /\ UNCHANGED <<page, mounted, loadCartPc, hpms, nextCall, stripeForm,
                 cartOps, co, ordersCreated, confirmed, stockRejects, cancelled, ctx>>

\* Cart.tsx 455-463: the catch (a toast) and the finally of processCheckout.
CheckoutFailed(c) == [c EXCEPT !.isProcessing = FALSE]

\* Promise.all rejects with the first delete that fails.
CheckoutDeletesFail(k) ==
  /\ BagIn(k, checkouts) /\ k.stage = "deleting"
  /\ checkouts' = checkouts (-) SetToBag({k})
  /\ Commit(CheckoutFailed(cart), sess)
  /\ server' \in CheckoutPartlyDeleted(server, k.items)
  /\ UNCHANGED <<page, mounted, loadCartPc, hpms, nextCall, navTimers,
                 stripeForm, cartOps, co, ordersCreated, confirmed,
                 stockRejects, cancelled, cartCount, ctx>>

\* Cart.tsx 452-454: navigate("/orders") unmounts the Cart page.
NavigateFires ==
  /\ page = "cart" /\ navTimers > 0
  /\ navTimers' = navTimers - 1
  /\ IF mounted THEN Unmount
     ELSE UNCHANGED <<mounted, cart, sess, pollSession>>
  /\ UNCHANGED <<page, loadCartPc, hpms, nextCall, checkouts, stripeForm,
                 cartOps, co, ordersCreated, confirmed, stockRejects, cancelled, cartCount, server, ctx>>

\* The user leaves the Cart page (a link of the layout, the back button).
LeaveCart ==
  /\ page = "cart" /\ mounted
  /\ Unmount
  /\ UNCHANGED others

(***************************************************************************)
(* StripePaymentForm (Cart.tsx 776-791, 862-918).  One submission at a     *)
(* time is followed; it keeps the orderId prop and the processCheckout     *)
(* closure (through onSuccess) of the render in which it was submitted.    *)
(***************************************************************************)
StripeFormShown ==
  /\ InModal /\ cart.stripeClientSecret # Null /\ cart.stripePromise
  /\ cart.paymentMethod = "STRIPE"

StripeSubmit ==
  /\ StripeFormShown /\ stripeForm.pc = "idle"
  /\ stripeForm' = [pc |-> "card", order |-> cart.currentOrderId,
                    items |-> ItemIds(cart.cartItems)]
  /\ UNCHANGED <<page, mounted, cart, sess, pollSession, loadCartPc, hpms,
                 nextCall, checkouts, navTimers, cartOps, co, ordersCreated,
                 confirmed, stockRejects, cancelled, cartCount, server, ctx>>

\* Cart.tsx 885-898: confirmCardPayment returned a succeeded paymentIntent.
StripeCardOk ==
  /\ stripeForm.pc = "card"
  /\ stripeForm' = [stripeForm EXCEPT !.pc = "confirm"]
  /\ UNCHANGED <<page, mounted, cart, sess, pollSession, loadCartPc, hpms,
                 nextCall, checkouts, navTimers, cartOps, co, ordersCreated,
                 confirmed, stockRejects, cancelled, cartCount, server, ctx>>

\* Cart.tsx 891-897, 908-914: an error, another status, or a failed
\* stripeAPI.confirmPayment: the submission ends without onSuccess.
StripeFail ==
  /\ stripeForm.pc \in {"card", "confirm"}
  /\ stripeForm' = IdleForm
  /\ UNCHANGED <<page, mounted, cart, sess, pollSession, loadCartPc, hpms,
                 nextCall, checkouts, navTimers, cartOps, co, ordersCreated,
                 confirmed, stockRejects, cancelled, cartCount, server, ctx>>

\* Cart.tsx 900-906: the backend confirmed the payment; onSuccess() calls
\* processCheckout.
StripeConfirmOk ==
  /\ stripeForm.pc = "confirm"
  /\ BagCardinality(checkouts) < MaxCheckouts
  /\ stripeForm' = IdleForm
  /\ confirmed' = confirmed \cup ({stripeForm.order} \ {Null})
  /\ ProcessCheckoutCall(stripeForm.order, stripeForm.items, "stripe",
                         checkouts)
  /\ UNCHANGED <<page, mounted, loadCartPc, hpms, nextCall, cartOps, co,
                 ordersCreated, stockRejects, cancelled, server, ctx>>

\* Cart.tsx 783-787: onCancel; the button is disabled during a submission.
StripeCancel ==
  /\ StripeFormShown /\ stripeForm.pc = "idle"
  /\ Commit([cart EXCEPT !.showPaymentModal = FALSE,
                         !.stripeClientSecret = Null,
                         !.currentOrderId = Null], sess)
  /\ UNCHANGED <<mounted, others>>

(***************************************************************************)
(* updateQuantity, removeItem, clearCart (Cart.tsx 233-330).  An instance  *)
(* keeps the cartItems array its closure captured at the click.            *)
(***************************************************************************)
\* Fault injection: updateQuantity without its stock check.
UpdateQuantityCheckNoStock(items, itemId, newQuantity) ==
  IF newQuantity < 1 THEN "low"
  ELSE IF items[itemId] = 0 THEN "absent"
  ELSE "request"

\* Fault injection: a stock check that is off by one.
UpdateQuantityCheckOffByOne(items, itemId, newQuantity) ==
  IF newQuantity < 1 THEN "low"
  ELSE IF items[itemId] = 0 THEN "absent"
  ELSE IF HasBook(itemId) /\ newQuantity > Stock(itemId) + 1 THEN "stock"
  ELSE "request"

\* Cart.tsx 234-247: TRUE iff updateQuantity goes on to its request.
\* "absent": find returned nothing; "stock": the local stock check refused.
UpdateQuantityCheck(items, itemId, newQuantity) ==
  IF newQuantity < 1 THEN "low"
  ELSE IF items[itemId] = 0 THEN "absent"
  ELSE IF HasBook(itemId) /\ newQuantity > Stock(itemId) THEN "stock"
  ELSE "request"

\* Cart.tsx 556-557, 565-566: the quantities the two buttons of an item ask
\* for; each button is disabled at its end of the range.
ButtonQuantities(items, itemId) ==
  LET q == items[itemId]
  IN (IF q <= 1 THEN {} ELSE {q - 1})
     \cup (IF HasBook(itemId) /\ q >= Stock(itemId) THEN {} ELSE {q + 1})

UpdateQuantity(itemId, newQuantity) ==
  /\ PageLevel /\ cart.cartItems[itemId] > 0
  /\ newQuantity \in ButtonQuantities(cart.cartItems, itemId)
  /\ newQuantity <= MaxQty
  /\ LET v == UpdateQuantityCheck(cart.cartItems, itemId, newQuantity)
     IN IF v = "request"
          THEN /\ Cardinality(cartOps) < MaxOps
               /\ cartOps' = cartOps \cup
                    {[op |-> "update", pc |-> "request", item |-> itemId,
                      qty |-> newQuantity, items |-> cart.cartItems]}
               /\ UNCHANGED stockRejects
          ELSE /\ cartOps' = cartOps
               /\ stockRejects' = (stockRejects \/ v = "stock")
  /\ UNCHANGED <<page, mounted, cart, sess, pollSession, loadCartPc, hpms,
                 nextCall, checkouts, navTimers, stripeForm, co,
                 ordersCreated, confirmed, cancelled, cartCount, server, ctx>>

\* Cart.tsx 264-266.
UpdateQuantityOk(k) ==
  /\ k \in cartOps /\ k.op = "update"
  /\ cartOps' = cartOps \ {k}
  /\ server[k.item] > 0
  /\ server' = [server EXCEPT ![k.item] = k.qty]
  /\ Commit([cart EXCEPT !.cartItems = [k.items EXCEPT ![k.item] = k.qty]],
            sess)
  /\ UNCHANGED <<page, mounted, loadCartPc, hpms, nextCall, checkouts,
                 navTimers, stripeForm, co, ordersCreated, confirmed,
                 stockRejects, cancelled, cartCount, ctx>>

\* A failed request of updateQuantity or removeItem, or a failed request of
\* the updateCartCount call removeItem awaits (it catches its own errors,
\* CartContext.tsx 28-30): a toast at most, no state changes.
CartOpEnds(k) ==
  /\ k \in cartOps
  /\ k.op \in {"update", "remove"}
  /\ cartOps' = cartOps \ {k}
  /\ UNCHANGED <<page, mounted, cart, sess, pollSession, loadCartPc, hpms,
                 nextCall, checkouts, navTimers, stripeForm, co,
                 ordersCreated, confirmed, stockRejects, cancelled, cartCount, server, ctx>>

\* Cart.tsx 282-284, 547.
RemoveItem(itemId) ==
  /\ PageLevel /\ cart.cartItems[itemId] > 0
  /\ \/ Cardinality(cartOps) < MaxOps
     \/ /\ Cardinality(cartOps) < MaxRemovals
        /\ \A k \in cartOps : k.op = "remove"
  /\ cartOps' = cartOps \cup
       {[op |-> "remove", pc |-> "request", item |-> itemId, qty |-> 0,
         items |-> cart.cartItems]}
  /\ UNCHANGED <<page, mounted, cart, sess, pollSession, loadCartPc, hpms,
                 nextCall, checkouts, navTimers, stripeForm, co,
                 ordersCreated, confirmed, stockRejects, cancelled, cartCount, server, ctx>>

\* Cart.tsx 285-288: the filter of the captured array, then the await of
\* updateCartCount.
RemoveItemOk(k) ==
  /\ k \in cartOps /\ k.op = "remove" /\ k.pc = "request"
  /\ cartOps' = (cartOps \ {k}) \cup {[k EXCEPT !.pc = "count"]}
  /\ server' = Deleted(server, {k.item})
  /\ Commit([cart EXCEPT !.cartItems = [k.items EXCEPT ![k.item] = 0]], sess)
  /\ UNCHANGED <<page, mounted, loadCartPc, hpms, nextCall, checkouts,
                 navTimers, stripeForm, co, ordersCreated, confirmed,
                 stockRejects, cancelled, cartCount, ctx>>

\* Cart.tsx 288, CartContext.tsx 25-27: the request of the updateCartCount
\* call removeItem awaits is answered with the user's cart.
RemoveItemCounted(k) ==
  /\ k \in cartOps /\ k.op = "remove" /\ k.pc = "count"
  /\ cartOps' = cartOps \ {k}
  /\ cartCount' = totalCount(server)
  /\ UNCHANGED <<page, mounted, cart, sess, pollSession, loadCartPc, hpms,
                 nextCall, checkouts, navTimers, stripeForm, co,
                 ordersCreated, confirmed, stockRejects, cancelled, server,
                 ctx>>

\* Cart.tsx 492-499, 841.
OpenClearCartDialog ==
  /\ PageLevel /\ HasItems
  /\ Commit([cart EXCEPT !.showClearCartDialog = TRUE], sess)
  /\ UNCHANGED <<mounted, others>>

CloseClearCartDialog ==
  /\ Interactive /\ cart.showClearCartDialog
  /\ Commit([cart EXCEPT !.showClearCartDialog = FALSE], sess)
  /\ UNCHANGED <<mounted, others>>

\* Cart.tsx 303-309, 851: the dialog's action button; pressing it also
\* closes the dialog.
ClearCart ==
  /\ Interactive /\ cart.showClearCartDialog /\ ~cart.isProcessing
  /\ Cardinality(cartOps) < MaxOps
  /\ cartOps' = cartOps \cup
       {[op |-> "clear", pc |-> "request", item |-> Null, qty |-> 0,
         items |-> cart.cartItems]}
  /\ Commit([cart EXCEPT !.isProcessing = TRUE,
                         !.showClearCartDialog = FALSE], sess)
  /\ UNCHANGED <<page, mounted, loadCartPc, hpms, nextCall, checkouts,
                 navTimers, stripeForm, co, ordersCreated, confirmed,
                 stockRejects, cancelled, cartCount, server, ctx>>

\* Cart.tsx 311-329.
ClearCartOk(k) ==
  /\ k \in cartOps /\ k.op = "clear"
  /\ cartOps' = cartOps \ {k}
  /\ Commit([cart EXCEPT !.cartItems = EmptyCart,
                         !.showClearCartDialog = FALSE,
                         !.isProcessing = FALSE], sess)
  /\ server' = Deleted(server, ItemIds(k.items))
  /\ cartCount' = 0
  /\ UNCHANGED <<page, mounted, loadCartPc, hpms, nextCall, checkouts,
                 navTimers, stripeForm, co, ordersCreated, confirmed,
                 stockRejects, cancelled, ctx>>

\* Fault injection: a clearCart that empties the list although it failed.
ClearCartFailedEmptiesList(c) ==
  [c EXCEPT !.cartItems = EmptyCart, !.isProcessing = FALSE]

\* Cart.tsx 321-329: the catch (a toast) and the finally of clearCart.
ClearCartFailed(c) == [c EXCEPT !.isProcessing = FALSE]

ClearCartFail(k) ==
  /\ k \in cartOps /\ k.op = "clear"
  /\ cartOps' = cartOps \ {k}
  /\ Commit(ClearCartFailed(cart), sess)
  /\ server' \in PartlyDeleted(server, ItemIds(k.items))
  /\ UNCHANGED <<page, mounted, loadCartPc, hpms, nextCall, checkouts,
                 navTimers, stripeForm, co, ordersCreated, confirmed,
                 stockRejects, cancelled, cartCount, ctx>>

(***************************************************************************)
(* The Checkout page (Checkout.tsx).  `co` holds its useState cells and    *)
(* the position of the one handleCheckout call the disabled submit button  *)
(* allows at a time; setState does nothing once the page is unmounted.     *)
(***************************************************************************)
coRest == <<page, cart, sess, pollSession, loadCartPc, hpms, checkouts,
            navTimers, stripeForm, cartOps, confirmed, stockRejects, cancelled,
            cartCount, ctx>>

CoSet(new) == IF mounted THEN new ELSE [new EXCEPT
  !.cartItems = co.cartItems, !.isLoading = co.isLoading,
  !.isProcessing = co.isProcessing, !.shippingAddress = co.shippingAddress]

\* Checkout.tsx 34-58.
CoLoadCartOk(c) ==
  /\ page = "checkout" /\ loadCartPc = "fetch"
  /\ c = server
  /\ loadCartPc' = "done"
  /\ co' = CoSet([co EXCEPT !.cartItems = c, !.isLoading = FALSE])
  /\ UNCHANGED <<page, mounted, cart, sess, pollSession, hpms, nextCall,
                 checkouts, navTimers, stripeForm, cartOps, ordersCreated,
                 confirmed, stockRejects, cancelled, cartCount, server, ctx>>

CoLoadCartFail ==
  /\ page = "checkout" /\ loadCartPc = "fetch"
  /\ loadCartPc' = "done"
  /\ co' = CoSet([co EXCEPT !.isLoading = FALSE])
  /\ UNCHANGED <<page, mounted, cart, sess, pollSession, hpms, nextCall,
                 checkouts, navTimers, stripeForm, cartOps, ordersCreated,
                 confirmed, stockRejects, cancelled, cartCount, server, ctx>>

\* Checkout.tsx 111-120, 127: the form is rendered for a loaded, non-empty
\* cart only.
CoFormShown ==
  /\ page = "checkout" /\ mounted /\ ~co.isLoading
  /\ ItemIds(co.cartItems) # {}

CoSetShippingAddress(b) ==
  /\ CoFormShown /\ b # co.shippingAddress
  /\ co' = [co EXCEPT !.shippingAddress = b]
  /\ UNCHANGED <<mounted, nextCall, ordersCreated, server, coRest>>

\* Checkout.tsx 63-76: the submit button is disabled while isProcessing and
\* the address input is required.
CoHandleCheckout ==
  /\ CoFormShown /\ ~co.isProcessing /\ co.shippingAddress
  /\ co.pc = "idle"
  /\ nextCall <= MaxOrders
  /\ nextCall' = nextCall + 1
  /\ co' = [co EXCEPT !.isProcessing = TRUE, !.pc = "create",
                      !.order = Null, !.reqOrder = Null,
                      !.total = calculateTotal(co.cartItems),
                      !.items = ItemIds(co.cartItems),
                      !.paymentCreated = FALSE, !.deleted = FALSE]
  /\ UNCHANGED <<mounted, ordersCreated, server, coRest>>

\* Checkout.tsx 77-82: with the order returned, the payment record is
\* requested for order.id; nothing else is requested yet.
CheckoutAfterOrder(c, o) ==
  [c EXCEPT !.pc = "payment", !.order = o,
            !.reqOrder = PaymentRequestOrderId(o, Null)]

CoOrderCreateOk ==
  /\ co.pc = "create"
  /\ LET o == Cardinality(ordersCreated) + 1
     IN /\ ordersCreated' = ordersCreated \cup {o}
        /\ co' = CheckoutAfterOrder(co, o)
  /\ UNCHANGED <<mounted, nextCall, server, coRest>>

\* Checkout.tsx 89-97: the catch and finally of handleCheckout, reached
\* from whichever await rejected.
CoFailed(c) ==
  CoSet([c EXCEPT !.isProcessing = FALSE, !.pc = "idle", !.items = {},
                  !.total = 0])

CoOrderCreateFail ==
  /\ co.pc = "create"
  /\ co' = CoFailed(co)
  /\ UNCHANGED <<mounted, nextCall, ordersCreated, server, coRest>>

\* Checkout.tsx 83: the deletes are issued once the payment record exists.
CoPaymentOk ==
  /\ co.pc = "payment"
  /\ co' = [co EXCEPT !.pc = "delete", !.paymentCreated = TRUE]
  /\ UNCHANGED <<mounted, nextCall, ordersCreated, server, coRest>>

CoPaymentFail ==
  /\ co.pc = "payment"
  /\ co' = CoFailed(co)
  /\ UNCHANGED <<mounted, nextCall, ordersCreated, server, coRest>>

\* Checkout.tsx 84-88, 95-97: navigate("/orders") leaves the page.
CoDeletesOk ==
  /\ co.pc = "delete"
  /\ co' = CoSet([co EXCEPT !.isProcessing = FALSE, !.pc = "done",
                            !.deleted = TRUE, !.navigated = TRUE])
  /\ server' = Deleted(server, co.items)
  /\ mounted' = FALSE
  /\ UNCHANGED <<nextCall, ordersCreated, coRest>>

CoDeletesFail ==
  /\ co.pc = "delete"
  /\ co' = CoFailed(co)
  /\ server' \in CheckoutPartlyDeleted(server, co.items)
  /\ UNCHANGED <<mounted, nextCall, ordersCreated, coRest>>

LeaveCheckout ==
  /\ page = "checkout" /\ mounted
  /\ mounted' = FALSE
  /\ UNCHANGED <<co, nextCall, ordersCreated, server, coRest>>

(***************************************************************************)
(* CartProvider and AuthProvider (CartContext.tsx), the logout button of   *)
(* the layout, the login form and the add-to-cart button.  The providers   *)
(* stay mounted when a page is left, so their setState always takes        *)
(* effect.                                                                 *)
(***************************************************************************)
pageVars == <<page, mounted, cart, sess, pollSession, loadCartPc, hpms,
              nextCall, checkouts, navTimers, stripeForm, cartOps, co,
              ordersCreated, confirmed, stockRejects, cancelled>>

\* CartContext.tsx 25-27: a request of updateCartCount made by the effect of
\* lines 41-43 is answered with the cart of the user the call was made for.
UpdateCartCountOk ==
  /\ countReqs > 0
  /\ countReqs' = countReqs - 1
  /\ cartCount' = totalCount(server)
  /\ UNCHANGED <<pageVars, server, auth, storage, adding>>

\* CartContext.tsx 28-30.
UpdateCartCountFail ==
  /\ countReqs > 0
  /\ countReqs' = countReqs - 1
  /\ UNCHANGED <<pageVars, cartCount, server, auth, storage, adding>>

\* Home.tsx 125-136, 200: the login form, shown to a visitor who is not logged
\* in; its button is disabled while a login call runs.
Login(t) ==
  /\ auth[t].user = Null /\ auth[t].pc = "idle"
  /\ auth' = [auth EXCEPT ![t].pc = "login"]
  /\ UNCHANGED <<pageVars, cartCount, server, storage, countReqs, adding>>

\* CartContext.tsx 192-196: authAPI.login answered.
LoginOk(t) ==
  /\ auth[t].pc = "login"
  /\ auth' = [auth EXCEPT ![t].token = UserId, ![t].pc = "profile"]
  /\ storage' = [storage EXCEPT !.token = UserId]
  /\ UNCHANGED <<pageVars, cartCount, server, countReqs, adding>>

\* CartContext.tsx 214-221.
LoginFail(t) ==
  /\ auth[t].pc = "login"
  /\ auth' = [auth EXCEPT ![t].pc = "idle"]
  /\ UNCHANGED <<pageVars, cartCount, server, storage, countReqs, adding>>

\* CartContext.tsx 199-208: the profile request resolves or rejects; both
\* branches set the user and store it.  In ThisTab the effect of CartProvider
\* then calls updateCartCount for the new user (CartContext.tsx 18-25, 41-43).
LoginProfileEnds(t) ==
  /\ auth[t].pc = "profile"
  /\ auth' = [auth EXCEPT ![t].user = UserId, ![t].pc = "idle"]
  /\ storage' = [storage EXCEPT !.user = UserId]
  /\ IF t = ThisTab
       THEN countReqs < MaxCountReqs /\ countReqs' = countReqs + 1
       ELSE UNCHANGED countReqs
  /\ UNCHANGED <<pageVars, cartCount, server, adding>>

\* CartContext.tsx 241-250 called by Layout.tsx 33-37, whose button is shown
\* to a logged-in user (Layout.tsx 73): navigate("/") leaves the page; in
\* ThisTab the effect of CartProvider runs updateCartCount with no user
\* (CartContext.tsx 19-22).
Logout(t) ==
  /\ auth[t].user # Null
  /\ auth' = [auth EXCEPT ![t].user = Null, ![t].token = Null]
  /\ storage' = NoEntries
  /\ IF t = ThisTab
       THEN /\ cartCount' = 0
            /\ IF mounted /\ page = "cart" THEN Unmount
               ELSE /\ mounted' = FALSE
                    /\ UNCHANGED <<cart, sess, pollSession>>
       ELSE UNCHANGED <<cartCount, mounted, cart, sess, pollSession>>
  /\ UNCHANGED <<page, loadCartPc, hpms, nextCall, checkouts, navTimers,
                 stripeForm, cartOps, co, ordersCreated, confirmed,
                 stockRejects, cancelled, server, countReqs, adding>>

\* BookDetail.tsx 49-64, 160: the add-to-cart button, disabled while a call
\* runs; the request creates cart item i with quantity 1.
AddToCart(i) ==
  /\ page = "book" /\ mounted
  /\ auth[ThisTab].user # Null
  /\ adding = Null /\ server[i] = 0
  /\ adding' = i
  /\ UNCHANGED <<pageVars, cartCount, server, auth, storage, countReqs>>

\* BookDetail.tsx 65, 80-82; CartContext.tsx 33-35.
AddToCartOk ==
  /\ adding # Null /\ server[adding] = 0
  /\ server' = [server EXCEPT ![adding] = 1]
  /\ cartCount' = cartCount + 1
  /\ adding' = Null
  /\ UNCHANGED <<pageVars, auth, storage, countReqs>>

\* BookDetail.tsx 71-82.
AddToCartFail ==
  /\ adding # Null
  /\ adding' = Null
  /\ UNCHANGED <<pageVars, cartCount, server, auth, storage, countReqs>>

\* Layout.tsx 76: the cart link of the header, from the book page.
GoToCart ==
  /\ page = "book" /\ mounted
  /\ page' = "cart"
  /\ UNCHANGED <<mounted, cart, sess, pollSession, loadCartPc, hpms, nextCall,
                 checkouts, navTimers, stripeForm, cartOps, co, ordersCreated,
                 confirmed, stockRejects, cancelled, cartCount, server, ctx>>

(***************************************************************************)
(* Next-state relations.  Each specification follows one part of the code; *)
(* the handlers it leaves out are those of controls the user does not      *)
(* touch in its behaviours.                                                *)
(***************************************************************************)
ModalSteps ==
  \/ \E b \in BOOLEAN : SetShippingAddress(b)
  \/ HandleCheckout
  \/ CloseModal
  \/ \E m \in PaymentMethods : SetPaymentMethod(m)

SubmitReplies ==
  \E c \in Calls : \/ OrderCreateOk(c)
                   \/ OrderCreateFail(c)
                   \/ GenerateQROk(c)
                   \/ GenerateQRFail(c)
                   \/ CreatePaymentIntentOk(c)
                   \/ CreatePaymentIntentFail(c)

SubmitSteps ==
  \/ HandlePaymentMethodSubmit
  \/ SubmitReplies

\* handlePaymentMethodSubmit for the first MaxSubmits submissions only.
FirstSubmits == nextCall <= MaxSubmits /\ HandlePaymentMethodSubmit

PollSteps ==
  \E s \in SessionIds : \/ Tick(s)
                        \/ \E r \in VerifyReplies : VerifyReply(s, r)

CheckoutSteps ==
  \/ \E k \in BagToSet(checkouts) : \/ CheckoutTimerFires(k)
                                    \/ CheckoutDeletesOk(k)
                                    \/ CheckoutDeletesFail(k)
  \/ CompletePaymentClick
  \/ CancelBakong
  \/ NavigateFires

StripeSteps ==
  \/ InitStripeOk
  \/ StripeSubmit
  \/ StripeCardOk
  \/ StripeFail
  \/ StripeConfirmOk
  \/ StripeCancel

CartOpClicks ==
  \/ \E i \in Items, q \in 1 .. MaxQty : UpdateQuantity(i, q)
  \/ OpenClearCartDialog
  \/ CloseClearCartDialog
  \/ ClearCart

CartOpReplies ==
  \E k \in cartOps : \/ UpdateQuantityOk(k)
                      \/ RemoveItemOk(k)
                      \/ RemoveItemCounted(k)
                      \/ CartOpEnds(k)
                      \/ ClearCartOk(k)
                      \/ ClearCartFail(k)

CartOpSteps ==
  \/ CartOpClicks
  \/ \E i \in Items : RemoveItem(i)
  \/ CartOpReplies

\* removeItem called while no other cart request is in flight.
SingleRemoveItem == cartOps = {} /\ \E i \in Items : RemoveItem(i)

CheckoutPageSteps ==
  \/ \E c \in ServerCarts : CoLoadCartOk(c)
  \/ CoLoadCartFail
  \/ \E b \in BOOLEAN : CoSetShippingAddress(b)
  \/ CoHandleCheckout
  \/ CoOrderCreateOk
  \/ CoOrderCreateFail
  \/ CoPaymentOk
  \/ CoPaymentFail
  \/ CoDeletesOk
  \/ CoDeletesFail
  \/ LeaveCheckout

\* The start with every item in the server's cart once.
InitFullCart == Init /\ server = FullCart

\* The Bakong payment flow of the Cart page with its poller.
NextPoll ==
  \/ LoadCartOk(FullCart)
  \/ LoadCartFail
  \/ ModalSteps
  \/ SubmitSteps
  \/ PollSteps
  \/ CheckoutSteps
  \/ LeaveCart

SpecPoll == InitFullCart /\ [][NextPoll]_vars

\* The same steps with at most MaxSubmits submissions of the payment modal,
\* under the scheduling the poller runs on: an interval timer that is set
\* keeps firing, and every verify-payment request gets a reply.
PollFairness ==
  \A s \in SessionIds :
    /\ WF_vars(Tick(s))
    /\ WF_vars(\E r \in VerifyReplies : VerifyReply(s, r))

NextPollOnce ==
  \/ LoadCartOk(FullCart)
  \/ LoadCartFail
  \/ ModalSteps
  \/ FirstSubmits
  \/ SubmitReplies
  \/ PollSteps
  \/ CheckoutSteps
  \/ LeaveCart

SpecPollFair == InitFullCart /\ [][NextPollOnce]_vars /\ PollFairness

\* Order submission on both pages: the Cart page with both payment methods
\* and the first reply of the poller, and the Checkout page.
NextSubmit ==
  \/ LoadCartOk(FullCart)
  \/ LoadCartFail
  \/ ModalSteps
  \/ SubmitSteps
  \/ \E s \in SessionIds, r \in VerifyReplies : VerifyReply(s, r)
  \/ CheckoutSteps
  \/ StripeSteps
  \/ CheckoutPageSteps
  \/ LeaveCart

SpecSubmit == InitFullCart /\ [][NextSubmit]_vars

\* Every handler of both pages, with at most MaxSubmits submissions of the
\* payment modal and one cart request at a time.
NextFlow ==
  \/ \E c \in ServerCarts : LoadCartOk(c)
  \/ LoadCartFail
  \/ ModalSteps
  \/ FirstSubmits
  \/ SubmitReplies
  \/ \E s \in SessionIds, r \in VerifyReplies : VerifyReply(s, r)
  \/ CheckoutSteps
  \/ StripeSteps
  \/ CartOpClicks
  \/ SingleRemoveItem
  \/ CartOpReplies
  \/ CheckoutPageSteps

SpecFlow == Init /\ [][NextFlow]_vars

\* The cart list of the Cart page and the order it is submitted with.
NextCart ==
  \/ \E c \in ServerCarts : LoadCartOk(c)
  \/ LoadCartFail
  \/ ModalSteps
  \/ CartOpSteps
  \/ HandlePaymentMethodSubmit
  \/ \E c \in Calls : OrderCreateFail(c)
  \/ UpdateCartCountOk
  \/ UpdateCartCountFail

SpecCart == Init /\ [][NextCart]_vars

\* The cart badge: add-to-cart, the cart handlers and the checkout of the
\* Checkout page, with a server that accepts every request.
NextBadge ==
  \/ \E c \in ServerCarts : LoadCartOk(c)
  \/ UpdateCartCountOk
  \/ \E i \in Items : AddToCart(i)
  \/ AddToCartOk
  \/ GoToCart
  \/ CartOpClicks
  \/ \E i \in Items : RemoveItem(i)
  \/ \E k \in cartOps : \/ UpdateQuantityOk(k)
                        \/ RemoveItemOk(k)
                        \/ RemoveItemCounted(k)
                        \/ ClearCartOk(k)
  \/ \E c \in ServerCarts : CoLoadCartOk(c)
  \/ \E b \in BOOLEAN : CoSetShippingAddress(b)
  \/ CoHandleCheckout
  \/ CoOrderCreateOk
  \/ CoPaymentOk
  \/ CoDeletesOk

SpecBadge == Init /\ [][NextBadge]_vars

\* Logging in and out in the tabs of one browser, with the cart badge and
\* the add-to-cart button of ThisTab.
NextAuth ==
  \/ \E t \in Tabs : \/ Login(t)
                      \/ LoginOk(t)
                      \/ LoginFail(t)
                      \/ LoginProfileEnds(t)
                      \/ Logout(t)
  \/ UpdateCartCountOk
  \/ UpdateCartCountFail
  \/ \E i \in Items : AddToCart(i)
  \/ AddToCartOk
  \/ AddToCartFail

SpecAuth == Init /\ [][NextAuth]_vars

(***************************************************************************)
(* Properties of the Bakong poller, checked under SpecPoll (C2: under      *)
(* SpecPollFair).                                                          *)
(***************************************************************************)
\* C1: one polling session issues at most maxAttempts (60) verify-payment
\* requests: the attempts counter of a session, which counts the requests
\* it has issued, never exceeds maxAttempts.
C1_AtMostMaxAttemptsRequests ==
  \A s \in SessionIds : sess[s].attempts <= maxAttempts

\* The outcomes that end a polling session by themselves.
TerminalMessages == {"confirmed", "failed", "timeout", "unable"}

\* C2: every polling session terminates: a session whose timer is set
\* reaches, unless its effect run is cleaned up first, a state in which the
\* timer is cleared and isPollingPayment is false with one of the outcomes
\* confirmed, failed, timeout or unable.
C2_SessionTerminates ==
  \A s \in SessionIds :
    sess[s].timer ~>
      \/ pollSession # s
      \/ /\ ~sess[s].timer
         /\ ~cart.isPollingPayment
         /\ cart.paymentStatusMessage \in TerminalMessages

\* C3: the cart is cleared only after payment confirmation: a processCheckout
\* call that has issued its cart-item deletes runs for an order whose payment
\* confirmation (a COMPLETED/PAID verify reply, or a confirmed Stripe
\* payment) has reached the client.
C3_CartClearedOnlyAfterConfirmation ==
  \A k \in BagToSet(checkouts) : k.stage = "deleting" => k.order \in confirmed

\* C4: at most one polling interval timer is active at any time.
C4_AtMostOneTimer ==
  Cardinality({s \in SessionIds : sess[s].timer}) <= 1

\* A second session polls while a request of an earlier, cleaned-up session
\* still awaits its reply.
C4_SecondSessionPolls ==
  \E s, t \in SessionIds : s # t /\ sess[s].timer /\ sess[t].inflight > 0

\* C5: once a polling session has been cleaned up no verify-payment request
\* is started for it: every step that starts a request of session s is a step
\* of the effect run that is still the current one.
C5_NoRequestAfterCleanup ==
  [][\A s \in SessionIds :
       sess'[s].inflight > sess[s].inflight => pollSession' = s]_vars

\* The page was unmounted while a request of the session awaited its reply.
C5_CleanedUpWithPendingReply ==
  /\ ~mounted
  /\ \E s \in SessionIds : sess[s].inflight > 0 /\ ~sess[s].timer

\* C10: a step of the poller that processes a reply schedules processCheckout
\* only if the reply is COMPLETED with order status PAID; a FAILED reply
\* clears the session's timer and schedules no processCheckout and no
\* navigation; any other OK reply processed below the attempt ceiling leaves
\* the timer as it was.
C10_PollerOutcomes ==
  [][\A s \in SessionIds :
       sess'[s].inflight < sess[s].inflight =>
         \A r \in VerifyReplies :
           VerifyReply(s, r) =>
             /\ ~IsConfirmation(r) =>
                  checkouts' = checkouts /\ navTimers' = navTimers
             /\ (r.kind = "ok" /\ r.paymentStatus = "FAILED") =>
                  ~sess'[s].timer
             /\ ( /\ r.kind = "ok" /\ ~IsConfirmation(r)
                  /\ r.paymentStatus # "FAILED"
                  /\ sess[s].attempts < maxAttempts ) =>
                  sess'[s].timer = sess[s].timer]_vars

\* A FAILED reply was processed for the current session: its timer is
\* cleared, the failure is shown, nothing is scheduled.
C10_FailedReplyProcessed ==
  /\ mounted /\ pollSession # NoSession
  /\ ~sess[pollSession].timer
  /\ cart.paymentStatusMessage = "failed"
  /\ checkouts = EmptyBag /\ navTimers = 0

(***************************************************************************)
(* Properties of order submission, checked under SpecSubmit.               *)
(***************************************************************************)
\* C6: checkout calls are sequential.  On the Cart page the payment step (QR
\* generation or payment intent) is in flight only for an order the creation
\* request returned, and is requested with that order's id.  On the Checkout
\* page the payment record is requested for the created order's id, the
\* cart-item deletes are in flight only once the payment record exists, and
\* the page navigates to /orders only after all deletes succeeded.
C6_SequentialCheckout ==
  /\ \A c \in Calls :
       hpms[c].pc \in {"qr", "intent"} =>
         hpms[c].order \in ordersCreated /\ hpms[c].reqOrder = hpms[c].order
  /\ co.pc = "payment" =>
       co.order \in ordersCreated /\ co.reqOrder = co.order
  /\ co.pc = "delete" => co.paymentCreated
  /\ co.navigated => co.deleted

\* The QR of the second order of a behaviour is being generated.
C6_SecondOrderPaymentStep ==
  \E c \in Calls : hpms[c].pc = "qr" /\ hpms[c].order = 2

\* A step that issues no request: no handler instance enters a state in
\* which it awaits a reply.
NoRequestIssued ==
  /\ \A c \in Calls :
       hpms'[c].pc \in {"create", "qr", "intent"} => hpms'[c] = hpms[c]
  /\ \A s \in SessionIds : sess'[s].inflight <= sess[s].inflight
  /\ \A k \in BagToSet(checkouts') :
       k.stage = "deleting" => CopiesIn(k, checkouts') <= CopiesIn(k, checkouts)
  /\ cartOps' \subseteq cartOps
  /\ stripeForm'.pc # "idle" => stripeForm' = stripeForm
  /\ co'.pc \in {"create", "payment", "delete"} => co'.pc = co.pc

\* C8: no recovery after a failed payment step.  The step in which the QR
\* generation or the payment-intent creation fails issues no request (no
\* order delete or update, no cart-item delete) and leaves the payment modal
\* closed and currentOrderId null; the step in which the payment-record
\* creation of the Checkout page fails issues no request either.
C8_NoRecoveryAfterPaymentFailure ==
  [][/\ \A c \in Calls :
          ( /\ hpms[c].pc \in {"qr", "intent"}
            /\ (GenerateQRFail(c) \/ CreatePaymentIntentFail(c)) ) =>
            /\ NoRequestIssued
            /\ ~cart'.showPaymentModal
            /\ cart'.currentOrderId = Null
            /\ cart'.cartItems = cart.cartItems
     /\ (co.pc = "payment" /\ CoPaymentFail) =>
          NoRequestIssued /\ co'.cartItems = co.cartItems]_vars

\* The payment step of an order failed: the order exists, nothing was
\* cancelled or polled, the modal is closed and the cart is as it was.
C8_PaymentStepHasFailed ==
  /\ page = "cart" /\ mounted
  /\ ordersCreated = {1} /\ hpms[1].pc = "done"
  /\ ~cart.stripePromise /\ ~cart.isPollingPayment
  /\ cart.currentOrderId = Null /\ ~cart.showPaymentModal
  /\ cart.bakongQR = Null /\ cart.stripeClientSecret = Null
  /\ cart.cartItems = FullCart

(***************************************************************************)
(* Properties of the busy flags, checked under SpecFlow.                   *)
(***************************************************************************)
\* No call of loadCart, handlePaymentMethodSubmit, processCheckout,
\* updateQuantity, removeItem, clearCart or Checkout.handleCheckout is
\* between its first statement and its last.
Quiescent ==
  /\ loadCartPc = "done"
  /\ \A c \in Calls : hpms[c].pc \notin {"create", "qr", "intent"}
  /\ \A k \in BagToSet(checkouts) : k.stage # "deleting"
  /\ cartOps = {}
  /\ co.pc \notin {"create", "payment", "delete"}

\* C7: no stuck busy state: on a mounted page on which every handler call has
\* finished, by success or by a caught error, isLoading, isProcessing and
\* isGeneratingQR are all false.
C7_NoStuckBusyState ==
  (mounted /\ Quiescent) =>
    /\ page = "cart" =>
         ~cart.isLoading /\ ~cart.isProcessing /\ ~cart.isGeneratingQR
    /\ page = "checkout" => ~co.isLoading /\ ~co.isProcessing

\* The order-creation request of the only submission so far has failed and
\* nothing else is running.
C7_FinishedAfterFailure ==
  /\ page = "cart" /\ mounted /\ Quiescent
  /\ hpms[1].pc = "done" /\ ordersCreated = {}
  /\ ~cart.showPaymentModal

(***************************************************************************)
(* Properties of the cart list and the order total, checked under SpecCart.*)
(***************************************************************************)
\* C9 as the specification states it: the client decides nothing on stock
\* locally and submits no amount it computed from its own cart.
C9_StockAndTotalServerSideOnly ==
  /\ ~stockRejects
  /\ \A c \in Calls : hpms[c].pc = "create" => hpms[c].total = 0

\* The sum, over the items of a cart whose book details are loaded, of price
\* times quantity.
RECURSIVE PricedSum(_, _)
PricedSum(items, S) ==
  IF S = {} THEN 0
  ELSE LET i == CHOOSE x \in S : TRUE
       IN Price(i) * items[i] + PricedSum(items, S \ {i})

\* C9: the client checks stock and computes the total locally: every update
\* request updateQuantity has issued asks for a quantity of at least 1 and,
\* when the item's book details are loaded, of at most the book's stock; the
\* totalAmount of an order-creation request is the sum of price times
\* quantity over the items of the local cart whose book details are loaded.
C9_LocalStockCheckAndTotal ==
  [][/\ \A k \in cartOps' :
          k.op = "update" =>
            k.qty >= 1 /\ (HasBook(k.item) => k.qty <= Stock(k.item))
     /\ \A c \in Calls :
          (hpms[c].pc = "idle" /\ hpms'[c].pc = "create") =>
            hpms'[c].total =
              PricedSum(cart.cartItems, {i \in Items : HasBook(i)})]_vars

\* A quantity was refused locally on stock, and an order-creation request
\* with a locally computed, non-zero amount is in flight.
C9_RefusedLocallyAndTotalSent ==
  /\ stockRejects
  /\ \E c \in Calls : hpms[c].pc = "create" /\ hpms[c].total > 0

(***************************************************************************)
(* Properties of processCheckout and of cancelling, checked under SpecPoll.*)
(***************************************************************************)
\* The processCheckout calls for order o whose cart-item deletes are in
\* flight.
DeletingCalls(o) ==
  {k \in BagToSet(checkouts) : k.order = o /\ k.stage = "deleting"}

RECURSIVE CopiesOf(_)
CopiesOf(S) ==
  IF S = {} THEN 0
  ELSE LET k == CHOOSE x \in S : TRUE
       IN CopiesIn(k, checkouts) + CopiesOf(S \ {k})

\* C11: checkout is processed at most once per order: for one order at most
\* one processCheckout call has issued its cart-item deletes (so that no
\* cart item has two delete requests in flight for that order).
C11_CheckoutAtMostOncePerOrder ==
  \A o \in Orders : CopiesOf(DeletingCalls(o)) <= 1

\* C12: cancel is final: once the user has cancelled the Bakong payment of an
\* order, no step starts the deletion of the cart items on behalf of that
\* order (and so none schedules the navigation to /orders for it), even if a
\* verify-payment request or the 1.5 s timer was pending at the cancel.
C12_CancelIsFinal ==
  [][\A o \in cancelled :
       CopiesOf(DeletingCalls(o))' <= CopiesOf(DeletingCalls(o))]_vars

(***************************************************************************)
(* Properties of the cart handlers, checked under SpecCart.                *)
(***************************************************************************)
\* C13: no lost update on the local cart list: the success of a removeItem
\* call never brings back an item that had left cartItems, so that after
\* removals whose deletes all succeeded cartItems holds none of the removed
\* items, also when a second removal started before the first resolved.
C13_NoLostRemoval ==
  [][\A k \in cartOps :
       RemoveItemOk(k) =>
         \A i \in Items : cart.cartItems[i] = 0 => cart'.cartItems[i] = 0]_vars

\* C14: the local cart state changes only after the server accepted: a step
\* in which the request of updateQuantity, removeItem or clearCart fails
\* leaves cartItems exactly as it was and does not change cartCount.
C14_FailedRequestChangesNothing ==
  [][\A k \in cartOps :
       (k.pc = "request" /\ (CartOpEnds(k) \/ ClearCartFail(k)))
         => (cart'.cartItems = cart.cartItems /\ cartCount' = cartCount)]_vars

\* A clearCart has failed after one of its deletes was carried out: the
\* list and the badge still show every item that was loaded, the server has
\* lost one.
C14_ClearCartHasFailed ==
  /\ mounted /\ loadCartPc = "done" /\ cartOps = {} /\ countReqs = 0
  /\ \A i \in Items : cart.cartItems[i] > 0
  /\ \E i \in Items : server[i] = 0
  /\ cartCount = totalCount(cart.cartItems)

\* Item i is within its stock in cartItems, in every array a running handler
\* captured and in the quantity a running updateQuantity asks for (an item
\* that is not in the cart has quantity 0).
WithinStock(i) ==
  /\ cart.cartItems[i] <= Stock(i)
  /\ \A k \in cartOps :
       /\ k.items[i] <= Stock(i)
       /\ (k.op = "update" /\ k.item = i) => k.qty <= Stock(i)

C16_NoOrderForEmptyCart ==
  [][/\ HandlePaymentMethodSubmit => HasItems
     /\ CoHandleCheckout => ItemIds(co.cartItems) # {}]_vars

\* The order-creation requests of the Cart page that await their reply.
CreatesInFlight == {c \in Calls : hpms[c].pc = "create"}

\* Cart.tsx 795-803: the pay button of the modal is rendered and enabled.
PayButtonEnabled ==
  InModal /\ cart.currentOrderId = Null /\ ~cart.isProcessing

\* C17: double-submit protection: at most one order-creation request is in
\* flight at any time and none is issued while an order is current, that
\* is, while a request is in flight or currentOrderId is set the pay button
\* cannot start another one.
C17_DoubleSubmitProtection ==
  /\ Cardinality(CreatesInFlight) <= 1
  /\ (CreatesInFlight # {} \/ (mounted /\ cart.currentOrderId # Null))
       => ~PayButtonEnabled

(***************************************************************************)
(* Properties of the providers, checked under SpecBadge and SpecAuth.      *)
(***************************************************************************)
\* No request that reads or writes the user's cart awaits its reply.
NoCartRequest == Quiescent /\ countReqs = 0 /\ adding = Null

\* C18: cart badge sync: whenever no cart request is in flight, cartCount
\* equals the sum of the quantities of the logged-in user's cart items,
\* after any sequence of add-to-cart, updateQuantity, removeItem, clearCart
\* and completed checkout.
C18_BadgeInSync ==
  (NoCartRequest /\ auth[ThisTab].user # Null)
    => cartCount = totalCount(server)

\* C19: cartCount is 0 whenever no user is logged in, also when the logout
\* happens while an updateCartCount request for the previous user is in
\* flight.
C19_NoUserNoCount ==
  auth[ThisTab].user = Null => cartCount = 0

\* No login call is between its first statement and its last.
NoAuthOperation == \A t \in Tabs : auth[t].pc = "idle"

\* C20: auth state consistency: whenever no auth operation is in flight, in
\* every tab user is non-null exactly when token is, and localStorage holds
\* 'user' exactly when it holds 'token', also when logout is invoked while
\* the profile fetch of a login is pending.
C20_AuthStateConsistent ==
  NoAuthOperation =>
    /\ \A t \in Tabs : (auth[t].user # Null) <=> (auth[t].token # Null)
    /\ (storage.user # Null) <=> (storage.token # Null)

=============================================================================
